---------------------------- MODULE Spec2Model ----------------------------
(***************************************************************************)
(* A model of RustFileFinder (src/src/main.rs): main, glob_to_regex, the   *)
(* regex crate's compile/is_match on the expressions glob_to_regex can     *)
(* emit, find_files, search_file_content, the sort and display loop of     *)
(* main, and human_readable_size.                                          *)
(*                                                                         *)
(* Strings are sequences of one-character strings.  An unsigned 64-bit     *)
(* size is a sequence of seven base-1024 digits, most significant first    *)
(* (the first digit is below 16), so that no arithmetic leaves 32 bits.    *)
(***************************************************************************)
EXTENDS Integers, Sequences, FiniteSets

VARIABLES
    pc,             \* position in main: "glob", "compile", "find", "walk",
                    \* "sort", "display", "done", or "panicked"
    args,           \* the parsed command line (struct Args)
    fs,             \* the directory tree under args.dir (the environment)
    pos,            \* glob_to_regex: index of the next character of the pattern
    regex_pattern,  \* glob_to_regex: the expression built so far
    in_brackets,    \* glob_to_regex: the inside-bracket flag
    regex,          \* the compiled Regex (its parse), or NoRegex
    stack,          \* find_files: the frames of the recursion, innermost last
    results,        \* main: the vector returned by find_files, then sorted
    listed,         \* history: the directories handed to fs::read_dir
    examined,       \* history: the entries whose inclusion was decided
    output,         \* the lines printed so far
    panic           \* why the process panicked, or "none"

vars == <<pc, args, fs, pos, regex_pattern, in_brackets, regex, stack,
          results, listed, examined, output, panic>>

(***************************************************************************)
(* Characters.                                                             *)
(***************************************************************************)
BSL == "\\"

\* The characters the '.' | '+' | ... arm of glob_to_regex escapes.
MetaChars == {".", "+", "(", ")", "|", "^", "$", "@", "%"}

(***************************************************************************)
(* glob_to_regex, one action per arm of its match, one step per character. *)
(***************************************************************************)
GlobFrame == <<fs, regex, stack, results, listed, examined, output, panic, args>>

CurChar == args.pattern[pos]

InLoop == pc = "glob" /\ pos <= Len(args.pattern)

GlobStar ==
    /\ InLoop /\ CurChar = "*"
    /\ regex_pattern' = IF ~in_brackets THEN regex_pattern \o <<".", "*">>
                                        ELSE Append(regex_pattern, "*")
    /\ pos' = pos + 1
    /\ UNCHANGED <<pc, in_brackets, GlobFrame>>

GlobQuestion ==
    /\ InLoop /\ CurChar = "?"
    /\ regex_pattern' = IF ~in_brackets THEN Append(regex_pattern, ".")
                                        ELSE Append(regex_pattern, "?")
    /\ pos' = pos + 1
    /\ UNCHANGED <<pc, in_brackets, GlobFrame>>

GlobOpenBracket ==
    /\ InLoop /\ CurChar = "["
    /\ in_brackets' = TRUE
    /\ regex_pattern' = Append(regex_pattern, "[")
    /\ pos' = pos + 1
    /\ UNCHANGED <<pc, GlobFrame>>

GlobCloseBracket ==
    /\ InLoop /\ CurChar = "]"
    /\ in_brackets' = FALSE
    /\ regex_pattern' = Append(regex_pattern, "]")
    /\ pos' = pos + 1
    /\ UNCHANGED <<pc, GlobFrame>>

GlobMeta ==
    /\ InLoop /\ CurChar \in MetaChars
    /\ regex_pattern' = IF ~in_brackets
                          THEN regex_pattern \o <<BSL, CurChar>>
                          ELSE Append(regex_pattern, CurChar)
    /\ pos' = pos + 1
    /\ UNCHANGED <<pc, in_brackets, GlobFrame>>

GlobOther ==
    /\ InLoop /\ CurChar \notin (MetaChars \cup {"*", "?", "[", "]"})
    /\ regex_pattern' = Append(regex_pattern, CurChar)
    /\ pos' = pos + 1
    /\ UNCHANGED <<pc, in_brackets, GlobFrame>>

\* format!("^{}$", regex_pattern), and the return to main.
GlobFinish ==
    /\ pc = "glob" /\ pos > Len(args.pattern)
    /\ regex_pattern' = <<"^">> \o regex_pattern \o <<"$">>
    /\ pc' = "compile"
    /\ UNCHANGED <<pos, in_brackets, GlobFrame>>


(***************************************************************************)
(* Regex::new and Regex::is_match (regex crate), for the expressions       *)
(* glob_to_regex emits from the characters modelled here: letters, the     *)
(* glob characters * ? [ ], the escaped characters of MetaChars except     *)
(* + ( ) ^, and the backslash.  A compiled expression is a sequence of     *)
(* alternation branches; a branch is a sequence of items; an item is one   *)
(* atom (a literal, '.', a character class, ^ or $) with a repetition.     *)
(***************************************************************************)
NoRegex == [ok |-> FALSE, branches |-> <<>>]

\* What "\a" stands for: the bell character, which is no modelled character.
BEL == "<BEL>"

\* ASCII punctuation: a backslash before one of these is that character.
PunctChars == {".", "|", "$", "*", "?", "[", "]", BSL, "@", "%"}

\* Raw characters whose regex syntax is not modelled; no input contains them.
Unmodelled == {"(", ")", "+", "{", "}", "^", "-", "&", "~", ":"}

EscapeOk(c) == c \in PunctChars \/ c = "a"

EscapeLit(c) == IF c = "a" THEN BEL ELSE c

Item(k, c, set) == [k |-> k, c |-> c, set |-> set, rep |-> "one"]

\* The bracketed class whose "[" is just before p: [ok, set, pos], pos being
\* the index after its closing "]".  A "]" that comes first is a literal; a
\* "[" opens a nested class, whose characters join the set.
RECURSIVE ParseClassItems(_, _, _)
ParseClassOpen(re, p) ==
    IF p <= Len(re) /\ re[p] = "]"
      THEN ParseClassItems(re, p + 1, {"]"})
      ELSE ParseClassItems(re, p, {})

ParseClassItems(re, p, set) ==
    IF p > Len(re) THEN [ok |-> FALSE, set |-> {}, pos |-> p]
    ELSE IF re[p] = "]" THEN [ok |-> TRUE, set |-> set, pos |-> p + 1]
    ELSE IF re[p] = "[" THEN
        LET n == ParseClassOpen(re, p + 1)
        IN  IF n.ok THEN ParseClassItems(re, n.pos, set \cup n.set)
                    ELSE [ok |-> FALSE, set |-> {}, pos |-> p]
    ELSE IF re[p] = BSL THEN
        IF p + 1 <= Len(re) /\ EscapeOk(re[p + 1])
          THEN ParseClassItems(re, p + 2, set \cup {EscapeLit(re[p + 1])})
          ELSE [ok |-> FALSE, set |-> {}, pos |-> p]
    ELSE IF re[p] \in Unmodelled \ {"^"} THEN [ok |-> FALSE, set |-> {}, pos |-> p]
    ELSE ParseClassItems(re, p + 1, set \cup {re[p]})

\* A repetition operator applied to the last item of the branch.  Only what
\* the item can match matters here, so a lazy or nested repetition is the
\* greedy one: anything with a star is a star.
Repeat(cur, op) ==
    LET last == cur[Len(cur)]
        rep  == IF op = "*" \/ last.rep = "star" THEN "star" ELSE "opt"
    IN  [cur EXCEPT ![Len(cur)] = [last EXCEPT !.rep = rep]]

\* The parse of re from index p on, given the finished branches and the
\* items of the branch being read.
RECURSIVE ParseFrom(_, _, _, _)
ParseFrom(re, p, branches, cur) ==
    IF p > Len(re) THEN [ok |-> TRUE, branches |-> Append(branches, cur)]
    ELSE LET ch == re[p] IN
    CASE ch = "|" -> ParseFrom(re, p + 1, Append(branches, cur), <<>>)
      [] ch \in {"*", "?"} ->
            IF cur = <<>> THEN NoRegex
            ELSE ParseFrom(re, p + 1, branches, Repeat(cur, ch))
      [] ch = "." -> ParseFrom(re, p + 1, branches, Append(cur, Item("any", "", {})))
      [] ch = "^" -> ParseFrom(re, p + 1, branches, Append(cur, Item("bol", "", {})))
      [] ch = "$" -> ParseFrom(re, p + 1, branches, Append(cur, Item("eol", "", {})))
      [] ch = "[" ->
            LET c == ParseClassOpen(re, p + 1)
            IN  IF c.ok
                  THEN ParseFrom(re, c.pos, branches, Append(cur, Item("cls", "", c.set)))
                  ELSE NoRegex
      [] ch = BSL ->
            IF p + 1 <= Len(re) /\ EscapeOk(re[p + 1])
              THEN ParseFrom(re, p + 2, branches,
                             Append(cur, Item("lit", EscapeLit(re[p + 1]), {})))
              ELSE NoRegex
      [] ch \in Unmodelled \ {"^"} -> NoRegex
      [] OTHER -> ParseFrom(re, p + 1, branches, Append(cur, Item("lit", ch, {})))

\* Regex::new(re): Ok with the compiled expression, or Err.
RegexNew(re) == ParseFrom(re, 1, <<>>, <<>>)

\* The positions of s an atom leads to from the positions P.
StepAtom(it, s, P) ==
    CASE it.k = "bol" -> {p \in P : p = 0}
      [] it.k = "eol" -> {p \in P : p = Len(s)}
      [] it.k = "lit" -> {p + 1 : p \in {q \in P : q < Len(s) /\ s[q + 1] = it.c}}
      [] it.k = "any" -> {p + 1 : p \in {q \in P : q < Len(s) /\ s[q + 1] # "\n"}}
      [] it.k = "cls" -> {p + 1 : p \in {q \in P : q < Len(s) /\ s[q + 1] \in it.set}}

RECURSIVE StepStar(_, _, _)
StepStar(it, s, P) ==
    LET N == P \cup StepAtom(it, s, P)
    IN  IF N = P THEN P ELSE StepStar(it, s, N)

StepItem(it, s, P) ==
    CASE it.rep = "one"  -> StepAtom(it, s, P)
      [] it.rep = "opt"  -> P \cup StepAtom(it, s, P)
      [] it.rep = "star" -> StepStar(it, s, P)

RECURSIVE BranchEnds(_, _, _, _)
BranchEnds(b, n, s, P) ==
    IF n > Len(b) THEN P ELSE BranchEnds(b, n + 1, s, StepItem(b[n], s, P))

\* The spans <<i, j>> of s (s[i+1..j]) the expression matches.
MatchSpans(re, s) ==
    {sp \in (0..Len(s)) \X (0..Len(s)) :
        \E n \in 1..Len(re.branches) :
            sp[2] \in BranchEnds(re.branches[n], 1, s, {sp[1]})}

\* Regex::is_match: the expression matches somewhere in s.
IsMatch(re, s) == MatchSpans(re, s) # {}

\* Compile without the unwrap: the Err is dropped and main goes on.
CompileWithoutUnwrap ==
    /\ pc = "compile"
    /\ regex' = RegexNew(regex_pattern)
    /\ pc' = "find"
    /\ UNCHANGED <<args, fs, pos, regex_pattern, in_brackets, stack, results,
                   listed, examined, output, panic>>

\* let regex = Regex::new(&regex_pattern).unwrap();
Compile ==
    /\ pc = "compile"
    /\ LET r == RegexNew(regex_pattern)
       IN  IF r.ok THEN /\ regex' = r
                        /\ pc' = "find"
                        /\ panic' = panic
                   ELSE /\ regex' = NoRegex
                        /\ pc' = "panicked"
                        /\ panic' = "regex"
    /\ UNCHANGED <<args, fs, pos, regex_pattern, in_brackets, stack, results,
                   listed, examined, output>>

(***************************************************************************)
(* The file system.  A node is one directory entry: kind "file", "dir",    *)
(* "nostat" (fs::metadata fails on it: a dangling link, a path that may    *)
(* not be searched) or "err" (the read_dir iterator yields Err for it).    *)
(* A name is a sequence of characters; InvalidByte stands for a byte that  *)
(* is not UTF-8.  The tree does not change while the program runs.         *)
(***************************************************************************)
InvalidByte == "<ff>"

\* U+FFFD, what to_string_lossy puts in the place of an invalid byte.
ReplacementChar == "<fffd>"

\* path.file_name().unwrap().to_string_lossy()
ToStringLossy(name) ==
    [n \in 1..Len(name) |-> IF name[n] = InvalidByte THEN ReplacementChar ELSE name[n]]

\* path.to_str(): Some exactly when every component is valid UTF-8.
ToStrIsSome(path) ==
    \A n \in 1..Len(path) : \A m \in 1..Len(path[n]) : path[n][m] # InvalidByte

\* SystemTime::UNIX_EPOCH, in seconds since the epoch.
UNIX_EPOCH == 0

\* fs::read_dir(dir): the entries of a directory that can be listed, and
\* nothing (Err) for anything else.
ReadDir(node) ==
    IF node.kind = "dir" /\ node.listable THEN node.children ELSE <<>>

\* The node a path of components leads to from the start directory, or a
\* "nostat" node when there is none.
Missing == [name |-> <<>>, kind |-> "nostat"]

RECURSIVE Lookup(_, _, _)
Lookup(node, path, n) ==
    IF n > Len(path) THEN node
    ELSE LET hits == {m \in 1..Len(ReadDir(node)) :
                         /\ ReadDir(node)[m].kind # "err"
                         /\ ReadDir(node)[m].name = path[n]}
         IN  IF hits = {} THEN Missing
             ELSE Lookup(ReadDir(node)[CHOOSE m \in hits : TRUE], path, n + 1)

\* path.is_file() and path.is_dir(): fs::metadata(path) and the file type,
\* false when the metadata cannot be read.
IsFile(e) == e.kind = "file"

IsDir(e) == e.kind = "dir"

\* fs::metadata(&path) is Ok
MetadataOk(e) == e.kind \in {"file", "dir"}

\* metadata.modified().unwrap_or(SystemTime::UNIX_EPOCH)
Modified(e) == IF e.mtime_ok THEN e.mtime ELSE UNIX_EPOCH

(***************************************************************************)
(* search_file_content: the first line that reads and matches returns      *)
(* true; a line that fails to read is passed over; a file that does not    *)
(* open gives false.                                                       *)
(***************************************************************************)
\* The scan that gives up at the first line that fails to read.
RECURSIVE ScanLinesUntilErr(_, _, _)
ScanLinesUntilErr(lines, n, re) ==
    IF n > Len(lines) \/ ~lines[n].ok THEN FALSE
    ELSE IF IsMatch(re, lines[n].text) THEN TRUE
    ELSE ScanLinesUntilErr(lines, n + 1, re)

RECURSIVE ScanLines(_, _, _)
ScanLines(lines, n, re) ==
    IF n > Len(lines) THEN FALSE
    ELSE IF lines[n].ok /\ IsMatch(re, lines[n].text) THEN TRUE
    ELSE ScanLines(lines, n + 1, re)

search_file_content(e, re) ==
    IF e.openable THEN ScanLines(e.lines, 1, re) ELSE FALSE

(***************************************************************************)
(* find_files.  A frame is one invocation: the directory, the entries the  *)
(* for loop has still to take, and the local results vector.               *)
(***************************************************************************)
Frame(dir, node) == [dir |-> dir, entries |-> ReadDir(node), results |-> <<>>]

Top == stack[Len(stack)]

EntryPath(e) == Append(Top.dir, e.name)

NameMatches(e) == IsMatch(regex, ToStringLossy(e.name))

\* let matches_content = if args.content_search && path.is_file() {...}
MatchesContent(e) ==
    IF args.content_search /\ IsFile(e) THEN search_file_content(e, regex) ELSE FALSE

FileInfo(e) ==
    [path |-> EntryPath(e), size |-> e.size, modified |-> Modified(e),
     matches_content |-> MatchesContent(e)]

\* Inclusion without the second test (line 134): every file is kept when
\* content search is on.
IncludedWithoutSecondTest(e) ==
    /\ NameMatches(e) \/ (args.content_search /\ IsFile(e))
    /\ MetadataOk(e)

\* Lines 126-143: whether the entry is pushed onto the results.
Included(e) ==
    /\ NameMatches(e) \/ (args.content_search /\ IsFile(e))
    /\ MetadataOk(e)
    /\ NameMatches(e) \/ MatchesContent(e)

\* The local results after the entry has been looked at.
Collect(e) == IF Included(e) THEN Append(Top.results, FileInfo(e)) ELSE Top.results

WalkFrame == <<args, fs, pos, regex_pattern, in_brackets, regex, output>>

\* let mut results = find_files(&args.dir, &regex, &args): the call.
FindStart ==
    /\ pc = "find"
    /\ stack' = <<Frame(args.dir, fs)>>
    /\ listed' = listed \cup {args.dir}
    /\ pc' = "walk"
    /\ UNCHANGED <<results, examined, panic, WalkFrame>>

\* if let Ok(entry) = entry: an entry that is Err is passed over.
SkipErrEntry ==
    /\ pc = "walk" /\ Top.entries # <<>>
    /\ Head(Top.entries).kind = "err"
    /\ stack' = [stack EXCEPT ![Len(stack)].entries = Tail(@)]
    /\ UNCHANGED <<pc, results, listed, examined, panic, WalkFrame>>

\* An entry that is not a directory: lines 123-143, and the loop goes on.
VisitEntry ==
    /\ pc = "walk" /\ Top.entries # <<>>
    /\ LET e == Head(Top.entries) IN
        /\ e.kind # "err" /\ ~IsDir(e)
        /\ stack' = [stack EXCEPT ![Len(stack)] =
                        [@ EXCEPT !.entries = Tail(@), !.results = Collect(e)]]
        /\ examined' = examined \cup {EntryPath(e)}
    /\ UNCHANGED <<pc, results, listed, panic, WalkFrame>>

\* A directory: lines 123-143, then the recursive call of line 146.
VisitDir ==
    /\ pc = "walk" /\ Top.entries # <<>>
    /\ LET e == Head(Top.entries) IN
        /\ e.kind # "err" /\ IsDir(e) /\ ToStrIsSome(EntryPath(e))
        /\ stack' = Append([stack EXCEPT ![Len(stack)] =
                               [@ EXCEPT !.entries = Tail(@), !.results = Collect(e)]],
                           Frame(EntryPath(e), e))
        /\ examined' = examined \cup {EntryPath(e)}
        /\ listed' = listed \cup {EntryPath(e)}
    /\ UNCHANGED <<pc, results, panic, WalkFrame>>

\* A directory whose path is not UTF-8: path.to_str().unwrap() panics.
VisitDirPanic ==
    /\ pc = "walk" /\ Top.entries # <<>>
    /\ LET e == Head(Top.entries) IN
        /\ e.kind # "err" /\ IsDir(e) /\ ~ToStrIsSome(EntryPath(e))
        /\ stack' = [stack EXCEPT ![Len(stack)] =
                        [@ EXCEPT !.entries = Tail(@), !.results = Collect(e)]]
        /\ examined' = examined \cup {EntryPath(e)}
    /\ pc' = "panicked"
    /\ panic' = "to_str"
    /\ UNCHANGED <<results, listed, WalkFrame>>

\* The return that appends the callee's vector twice.
ReturnFrameExtendingTwice ==
    /\ pc = "walk" /\ Top.entries = <<>>
    /\ IF Len(stack) > 1
         THEN /\ stack' = [SubSeq(stack, 1, Len(stack) - 1)
                              EXCEPT ![Len(stack) - 1].results = @ \o Top.results \o Top.results]
              /\ UNCHANGED <<pc, results>>
         ELSE /\ stack' = <<>>
              /\ results' = Top.results
              /\ pc' = "sort"
    /\ UNCHANGED <<listed, examined, panic, WalkFrame>>

\* The for loop is over: the invocation returns its vector, which the
\* caller appends to its own (results.extend), or which main receives.
ReturnFrame ==
    /\ pc = "walk" /\ Top.entries = <<>>
    /\ IF Len(stack) > 1
         THEN /\ stack' = [SubSeq(stack, 1, Len(stack) - 1)
                              EXCEPT ![Len(stack) - 1].results = @ \o Top.results]
              /\ UNCHANGED <<pc, results>>
         ELSE /\ stack' = <<>>
              /\ results' = Top.results
              /\ pc' = "sort"
    /\ UNCHANGED <<listed, examined, panic, WalkFrame>>

(***************************************************************************)
(* Orderings: u64 (seven base-1024 digits, most significant first), file   *)
(* names (OsStr: byte by byte), SystemTime (seconds).  Each gives          *)
(* "Less", "Equal" or "Greater", as Ord::cmp does.                         *)
(***************************************************************************)
CmpInt(a, b) == IF a < b THEN "Less" ELSE IF a > b THEN "Greater" ELSE "Equal"

RECURSIVE CmpDigits(_, _, _)
CmpDigits(a, b, n) ==
    IF n > Len(a) THEN "Equal"
    ELSE IF a[n] # b[n] THEN CmpInt(a[n], b[n])
    ELSE CmpDigits(a, b, n + 1)

CmpU64(a, b) == CmpDigits(a, b, 1)

\* The modelled characters in byte order; an invalid byte is above ASCII.
ByteOrder == <<"$", "*", ".", "?", "[", BSL, "]", "a", "b", "c", "|", InvalidByte>>

Byte(c) == CHOOSE n \in 1..Len(ByteOrder) : ByteOrder[n] = c

RECURSIVE CmpStr(_, _, _)
CmpStr(a, b, n) ==
    IF n > Len(a) /\ n > Len(b) THEN "Equal"
    ELSE IF n > Len(a) THEN "Less"
    ELSE IF n > Len(b) THEN "Greater"
    ELSE IF a[n] # b[n] THEN CmpInt(Byte(a[n]), Byte(b[n]))
    ELSE CmpStr(a, b, n + 1)

\* path.file_name(): the last component.
FileName(path) == path[Len(path)]

\* The name closure comparing whole paths, component by component.
RECURSIVE CmpPath(_, _, _)
CmpPath(p, q, n) ==
    IF n > Len(p) /\ n > Len(q) THEN "Equal"
    ELSE IF n > Len(p) THEN "Less"
    ELSE IF n > Len(q) THEN "Greater"
    ELSE IF CmpStr(p[n], q[n], 1) # "Equal" THEN CmpStr(p[n], q[n], 1)
    ELSE CmpPath(p, q, n + 1)

CmpByFullPath(a, b) == CmpPath(a.path, b.path, 1)

\* The three closures main hands to sort_by.
CmpByName(a, b) == CmpStr(FileName(a.path), FileName(b.path), 1)

CmpBySize(a, b) == CmpU64(b.size, a.size)

CmpByDate(a, b) == CmpInt(b.modified, a.modified)

Compare(key, a, b) ==
    CASE key = "name" -> CmpByName(a, b)
      [] key = "size" -> CmpBySize(a, b)
      [] key = "date" -> CmpByDate(a, b)

\* slice::sort_by, a stable sort: x goes after the elements that do not
\* compare Greater than it.
RECURSIVE InsertSorted(_, _, _, _)
InsertSorted(key, sorted, x, n) ==
    IF n = 0 \/ Compare(key, sorted[n], x) # "Greater"
      THEN SubSeq(sorted, 1, n) \o <<x>> \o SubSeq(sorted, n + 1, Len(sorted))
      ELSE InsertSorted(key, sorted, x, n - 1)

RECURSIVE SortFrom(_, _, _, _)
SortFrom(key, v, n, sorted) ==
    IF n > Len(v) THEN sorted
    ELSE SortFrom(key, v, n + 1, InsertSorted(key, sorted, v[n], Len(sorted)))

SortBy(key, v) == SortFrom(key, v, 1, <<>>)

\* if let Some(sort_by) = &args.sort { match sort_by.as_str() {...} }
SortResults ==
    /\ pc = "sort"
    /\ results' = IF args.sort \in {"name", "size", "date"}
                    THEN SortBy(args.sort, results)
                    ELSE results
    /\ pc' = "display"
    /\ UNCHANGED <<args, fs, pos, regex_pattern, in_brackets, regex, stack,
                   listed, examined, output, panic>>

(***************************************************************************)
(* human_readable_size.                                                    *)
(***************************************************************************)
UNITS == <<"B", "KB", "MB", "GB", "TB", "PB">>

Zero64 == <<0, 0, 0, 0, 0, 0, 0>>

\* The index (from 0) of the leading non-zero digit of a non-zero size: the
\* exact floor of its logarithm to base 1024.
LeadingDigit(size) ==
    Len(size) - (CHOOSE n \in 1..Len(size) :
                    size[n] # 0 /\ \A m \in 1..(n - 1) : size[m] = 0)

\* Sizes just below 1024^5 and 1024^6: converted to f64 and divided by
\* ln 1024, their logarithm is no longer told apart from 5 or 6.
RoundsToPower(size) ==
    /\ LeadingDigit(size) \in {4, 5}
    /\ \A n \in (Len(size) - LeadingDigit(size))..Len(size) : size[n] = 1023

\* (size as f64).log(1024.0).floor() as usize: the values it can take.
LogFloor(size) ==
    IF RoundsToPower(size)
      THEN {LeadingDigit(size), LeadingDigit(size) + 1}
      ELSE {LeadingDigit(size)}

\* The returned String: format!("{:.2} {}", size / 1024^i, UNITS[i]) kept as
\* its parts, "0 B" for size 0, and IndexPanic where UNITS[i] is out of bounds.
IndexPanic == [text |-> "panic"]

human_readable_size(size, i) ==
    IF size = Zero64 THEN [text |-> "0 B"]
    ELSE IF i + 1 > Len(UNITS) THEN IndexPanic
    ELSE [text |-> "{:.2} {}", scaled |-> size, by |-> i, unit |-> UNITS[i + 1]]

(***************************************************************************)
(* The display loop of main: one line per record, in order.                *)
(***************************************************************************)
NextFile == results[Len(output) + 1]

\* if args.date, and the time is not before the epoch
DateShown(file) ==
    IF args.date /\ file.modified >= UNIX_EPOCH THEN <<file.modified>> ELSE <<>>

\* if args.size, and the path is a regular file now
SizeShown(file, i) ==
    IF args.size /\ IsFile(Lookup(fs, file.path, Len(args.dir) + 1))
      THEN IF args.human_readable THEN <<human_readable_size(file.size, i)>>
                                  ELSE <<[text |-> "{} bytes", bytes |-> file.size]>>
      ELSE <<>>

Line(file, i) ==
    [found |-> file.path, modified |-> DateShown(file), size |-> SizeShown(file, i),
     matches_content |-> args.content_search /\ file.matches_content]

Display ==
    /\ pc = "display" /\ Len(output) < Len(results)
    /\ \E i \in (IF NextFile.size = Zero64 THEN {0} ELSE LogFloor(NextFile.size)) :
          IF SizeShown(NextFile, i) = <<IndexPanic>>
            THEN /\ pc' = "panicked"
                 /\ panic' = "index"
                 /\ output' = output
            ELSE /\ output' = Append(output, Line(NextFile, i))
                 /\ UNCHANGED <<pc, panic>>
    /\ UNCHANGED <<args, fs, pos, regex_pattern, in_brackets, regex, stack,
                   results, listed, examined>>

\* The loop is over and main returns.
Exit ==
    /\ pc = "display" /\ Len(output) = Len(results)
    /\ pc' = "done"
    /\ UNCHANGED <<args, fs, pos, regex_pattern, in_brackets, regex, stack,
                   results, listed, examined, output, panic>>

(***************************************************************************)
(* Inputs.                                                                 *)
(***************************************************************************)
SeqsUpTo(S, n) == UNION {[1..m -> S] : m \in 0..n}

None == "none"

OneKiB == <<0, 0, 0, 0, 0, 1, 0>>

Ok(text) == [ok |-> TRUE, text |-> text]

Err == [ok |-> FALSE, text |-> <<>>]

File(name, openable, lines) ==
    [name |-> name, kind |-> "file", listable |-> FALSE, children |-> <<>>,
     openable |-> openable, lines |-> lines, size |-> OneKiB,
     mtime_ok |-> openable, mtime |-> 1]

Dir(name, listable, children) ==
    [name |-> name, kind |-> "dir", listable |-> listable, children |-> children,
     openable |-> FALSE, lines |-> <<>>, size |-> Zero64, mtime_ok |-> TRUE, mtime |-> 2]

NoStat(name) ==
    [name |-> name, kind |-> "nostat", listable |-> FALSE, children |-> <<>>,
     openable |-> FALSE, lines |-> <<>>, size |-> Zero64, mtime_ok |-> FALSE, mtime |-> 0]

ErrEntry ==
    [name |-> <<>>, kind |-> "err", listable |-> FALSE, children |-> <<>>,
     openable |-> FALSE, lines |-> <<>>, size |-> Zero64, mtime_ok |-> FALSE, mtime |-> 0]

\* The start directory, args.dir = ".": a path of one component.
StartDir == << <<".">> >>

Names == {<<"a">>, <<"c">>}

DirNames == {<<"c">>, <<InvalidByte>>}

\* What a file holds, line by line: a line that fails to read before one
\* that reads, and two lines that read.
LineMenu == { <<Err, Ok(<<"a">>)>>,
              <<Ok(<<"c", "a">>), Ok(<<"a", "$", "c">>)>> }

Leaves ==
    {File(n, TRUE, l) : n \in Names, l \in LineMenu}
      \cup {File(n, FALSE, <<>>) : n \in Names}
      \cup {NoStat(<<"a">>), ErrEntry}

\* The number of entries of the trees the traversal is run on.
MaxEntries == 3

NamesOf(listing) == {listing[n].name : n \in {m \in 1..Len(listing) : listing[m].kind # "err"}}

\* The nodes that are k entries in all, and the listings that are: a
\* directory holds no two entries of one name.
RECURSIVE NodesOfSize(_), ListingsOfSize(_)
NodesOfSize(k) ==
    IF k = 1
      THEN Leaves \cup {Dir(n, l, <<>>) : n \in DirNames, l \in BOOLEAN}
      ELSE {Dir(n, TRUE, c) : n \in DirNames, c \in ListingsOfSize(k - 1)}

ListingsOfSize(k) ==
    IF k = 0 THEN {<<>>}
    ELSE UNION {UNION {{<<x>> \o rest :
                           x \in {y \in NodesOfSize(j) : y.name \notin NamesOf(rest)}} :
                       rest \in ListingsOfSize(k - j)} :
                j \in 1..k}

Trees ==
    {Dir(<<".">>, TRUE, c) : c \in UNION {ListingsOfSize(k) : k \in 0..MaxEntries}}
      \cup {Dir(<<".">>, FALSE, <<>>)}

\* The patterns of the whole-program runs: *?, [a], a\|c and the unclosed [.
MainPatterns == {<<"*", "?">>, <<"[", "a", "]">>, <<"a", BSL, "|", "c">>, <<"[">>}

MakeArgs(pattern, sort, cs, date, size, human) ==
    [pattern |-> pattern, dir |-> StartDir, date |-> date, size |-> size,
     human_readable |-> human, sort |-> sort, content_search |-> cs]

Start(a, tree) ==
    /\ pc = "glob"
    /\ args = a
    /\ fs = tree
    /\ pos = 1
    /\ regex_pattern = <<>>
    /\ in_brackets = FALSE
    /\ regex = NoRegex
    /\ stack = <<>>
    /\ results = <<>>
    /\ listed = {}
    /\ examined = {}
    /\ output = <<>>
    /\ panic = "none"

Init ==
    \E p \in MainPatterns, cs \in BOOLEAN, tree \in Trees :
        Start(MakeArgs(p, None, cs, FALSE, TRUE, TRUE), tree)

Next ==
    \/ GlobStar \/ GlobQuestion \/ GlobOpenBracket \/ GlobCloseBracket
    \/ GlobMeta \/ GlobOther \/ GlobFinish
    \/ Compile
    \/ FindStart \/ SkipErrEntry \/ VisitEntry \/ VisitDir \/ VisitDirPanic \/ ReturnFrame
    \/ SortResults \/ Display \/ Exit

Spec == Init /\ [][Next]_vars

(***************************************************************************)
(* SpecGlob: glob_to_regex and Regex::new over every short pattern.        *)
(***************************************************************************)
GlobChars == {"a", "c", "*", "?", "[", "]", "|", ".", BSL}

MaxPatLen == 3

InitGlob ==
    \E p \in SeqsUpTo(GlobChars, MaxPatLen) :
        Start(MakeArgs(p, None, FALSE, FALSE, FALSE, FALSE), Dir(<<".">>, FALSE, <<>>))

NextGlob ==
    \/ GlobStar \/ GlobQuestion \/ GlobOpenBracket \/ GlobCloseBracket
    \/ GlobMeta \/ GlobOther \/ GlobFinish
    \/ Compile

SpecGlob == InitGlob /\ [][NextGlob]_vars

(***************************************************************************)
(* SpecSort: the traversal, the sort and the display of one tree, ./a and  *)
(* ./c/{a, b}, listed in every order and with sizes and times varied,      *)
(* under the pattern * and every sort key.                                 *)
(***************************************************************************)
TwoPow61 == <<2, 0, 0, 0, 0, 0, 0>>

\* The size and the modification time (seconds; -1 is before the epoch) of a file.
StatMenu == {<<Zero64, 1>>, <<OneKiB, 0>>, <<OneKiB, 1>>, <<TwoPow61, -1>>}

StatFile(name, st) ==
    [File(name, TRUE, <<>>) EXCEPT !.size = st[1], !.mtime = st[2]]

Perms(S) == {q \in [1..Cardinality(S) -> S] : \A x \in S : \E n \in DOMAIN q : q[n] = x}

SortTrees ==
    {Dir(<<".">>, TRUE, top) :
        top \in UNION {Perms({StatFile(<<"a">>, s1), Dir(<<"c">>, TRUE, sub)}) :
                          s1 \in StatMenu,
                          sub \in UNION {Perms({StatFile(<<"a">>, s2), StatFile(<<"b">>, s3)}) :
                                            s2 \in StatMenu, s3 \in StatMenu}}}

SortKeys == {None, "name", "size", "date"}

\* --date, --size and --human-readable as given together.
ShowMenu == {<<TRUE, TRUE, TRUE>>, <<FALSE, TRUE, FALSE>>}

StarRegex == <<"^", ".", "*", "$">>

InitSort ==
    \E key \in SortKeys, show \in ShowMenu, tree \in SortTrees :
        /\ pc = "find"
        /\ args = MakeArgs(<<"*">>, key, FALSE, show[1], show[2], show[3])
        /\ fs = tree
        /\ pos = 2
        /\ regex_pattern = StarRegex
        /\ in_brackets = FALSE
        /\ regex = RegexNew(StarRegex)
        /\ stack = <<>>
        /\ results = <<>>
        /\ listed = {}
        /\ examined = {}
        /\ output = <<>>
        /\ panic = "none"

NextSort ==
    \/ FindStart \/ VisitEntry \/ VisitDir \/ ReturnFrame
    \/ SortResults \/ Display \/ Exit

SpecSort == InitSort /\ [][NextSort]_vars

(***************************************************************************)
(* What the claims speak of, stated apart from the code above.             *)
(***************************************************************************)
Range(q) == {q[n] : n \in DOMAIN q}

\* Every entry below a directory, through the directories that can be
\* listed: its path and its node.
RECURSIVE EntriesBelow(_, _)
EntriesBelow(dir, node) ==
    UNION {{[path |-> Append(dir, e.name), node |-> e]}
              \cup EntriesBelow(Append(dir, e.name), e) :
           e \in {x \in Range(ReadDir(node)) : x.kind # "err"}}

AllEntries == EntriesBelow(args.dir, fs)

ResultPaths == {results[n].path : n \in DOMAIN results}

NameMatch(r) == IsMatch(regex, ToStringLossy(r.node.name))

\* The file opens and some line of it that reads matches.
ContentMatch(r) ==
    /\ r.node.kind = "file" /\ r.node.openable
    /\ \E n \in DOMAIN r.node.lines :
          r.node.lines[n].ok /\ IsMatch(regex, r.node.lines[n].text)

Readable(r) == r.node.kind \in {"file", "dir"}

Compiled == pc \in {"find", "walk", "sort", "display", "done"}

\* The strings the anchoring is tried on.
MaxSubjectLen == 2

Subjects == SeqsUpTo({"a", "c", "$", "|", BSL}, MaxSubjectLen)

(***************************************************************************)
(* C1.  Every compiled expression is anchored: whatever it matches in a    *)
(* string, it matches the whole string, never a proper part of it.  The    *)
(* code does not keep this: the pattern "\" gives ^\$, which matches the   *)
(* first character of "$a".                                                *)
(***************************************************************************)
C1_Anchored ==
    pc = "find" =>
        \A s \in Subjects : \A sp \in MatchSpans(regex, s) : sp = <<0, Len(s)>>

(***************************************************************************)
(* C2.  When find_files has returned, an entry it reached and whose        *)
(* metadata can be read is in the results exactly if its name matches, or  *)
(* content search is on and it is a regular file whose content matches;    *)
(* nothing else is in the results; without content search the results are  *)
(* the readable entries whose name matches.                                *)
(***************************************************************************)
C2_Inclusion ==
    pc = "sort" =>
        /\ \A r \in AllEntries :
              (r.path \in examined /\ Readable(r)) =>
                  (r.path \in ResultPaths <=>
                      (NameMatch(r) \/ (args.content_search /\ ContentMatch(r))))
        /\ ResultPaths \subseteq {r.path : r \in {x \in AllEntries : Readable(x)}}
        /\ ~args.content_search =>
              ResultPaths = {r.path : r \in {x \in AllEntries :
                                x.path \in examined /\ Readable(x) /\ NameMatch(x)}}

\* A run with content search that kept one entry for its content alone and
\* left another, readable one out.
C2_Witness ==
    /\ pc = "sort" /\ args.content_search
    /\ \E r \in AllEntries : r.path \in ResultPaths /\ ~NameMatch(r) /\ ContentMatch(r)
    /\ \E r \in AllEntries : r.path \in examined /\ Readable(r) /\ r.path \notin ResultPaths

(***************************************************************************)
(* C3.  When the expression does not compile the process panics at once:   *)
(* no directory has been listed, no entry examined and no line printed,    *)
(* and no run is past the compilation with an expression that failed it.   *)
(***************************************************************************)
C3_FatalBeforeTraversal ==
    /\ panic = "regex" => (pc = "panicked" /\ listed = {} /\ examined = {} /\ output = <<>>)
    /\ (pc \notin {"glob", "compile"} /\ ~RegexNew(regex_pattern).ok) =>
          (pc = "panicked" /\ panic = "regex" /\ listed = {} /\ output = <<>>)

C3_Witness == pc = "panicked" /\ panic = "regex" /\ ReadDir(fs) # <<>>

(***************************************************************************)
(* C4.  Once find_files is over, every directory below a start directory   *)
(* that can be listed has been handed to read_dir, whatever its name, and  *)
(* every entry at any depth has been examined.  The code does not keep     *)
(* this: a directory whose name is not UTF-8 makes to_str().unwrap() panic.*)
(***************************************************************************)
C4_EveryDirectoryRecursed ==
    (pc \in {"sort", "display", "done"} \/ panic = "to_str") =>
        /\ \A r \in AllEntries : r.path \in examined
        /\ \A r \in AllEntries : r.node.kind = "dir" => r.path \in listed

(***************************************************************************)
(* C5.  A directory that cannot be listed, an entry without metadata and   *)
(* a file that cannot be opened never abort the run: find_files returns,   *)
(* and the matching siblings of the failing entry are in the results.      *)
(* The run can still abort in the traversal, by the panic of C4.           *)
(***************************************************************************)
Failing(r) ==
    /\ ToStrIsSome(r.path)
    /\ \/ r.node.kind = "nostat"
       \/ r.node.kind = "dir" /\ ~r.node.listable
       \/ r.node.kind = "file" /\ ~r.node.openable

Siblings(r, q) ==
    /\ r.path # q.path /\ Len(r.path) = Len(q.path)
    /\ SubSeq(r.path, 1, Len(r.path) - 1) = SubSeq(q.path, 1, Len(q.path) - 1)

\* C5: an entry that fails to list, to stat or to open is passed over, and
\* the run goes on to completion with its siblings examined.
C5_ErrorsNeverAbort ==
    /\ (\E r \in AllEntries : Failing(r)) => panic # "to_str"
    /\ pc = "sort" =>
          \A r \in AllEntries : \A q \in AllEntries :
              (Failing(r) /\ Siblings(r, q) /\ Readable(q) /\ NameMatch(q)) =>
                  q.path \in ResultPaths

RECURSIVE ClaimedFrom(_, _, _, _, _)
ClaimedFrom(pattern, n, inside, escaped, out) ==
    IF n > Len(pattern) THEN out
    ELSE LET c   == pattern[n]
             esc == c = BSL /\ ~escaped
         IN  CASE c = "*" ->
                    ClaimedFrom(pattern, n + 1, inside, esc,
                                IF inside THEN Append(out, "*") ELSE out \o <<".", "*">>)
               [] c = "?" ->
                    ClaimedFrom(pattern, n + 1, inside, esc,
                                Append(out, IF inside THEN "?" ELSE "."))
               [] c = "[" ->
                    ClaimedFrom(pattern, n + 1, IF escaped THEN inside ELSE TRUE, esc,
                                Append(out, "["))
               [] c = "]" ->
                    ClaimedFrom(pattern, n + 1, IF escaped THEN inside ELSE FALSE, esc,
                                Append(out, "]"))
               [] c \in MetaChars ->
                    ClaimedFrom(pattern, n + 1, inside, esc,
                                IF inside THEN Append(out, c) ELSE out \o <<BSL, c>>)
               [] OTHER -> ClaimedFrom(pattern, n + 1, inside, esc, Append(out, c))

\* C8: the string handed to the compiler is the translation as claimed,
\* between ^ and $.
C8_TranslationAsClaimed ==
    pc = "compile" =>
        regex_pattern = <<"^">> \o ClaimedFrom(args.pattern, 1, FALSE, FALSE, <<>>) \o <<"$">>

(***************************************************************************)
(* C9.  The traversal terminates: every step of it lowers a measure of     *)
(* the work left (two for each entry not yet taken, one for each frame).   *)
(* No two records have the same path, and no entry is taken twice.         *)
(***************************************************************************)
RECURSIVE Weight(_, _)
Weight(listing, n) ==
    IF n > Len(listing) THEN 0
    ELSE 2 + Weight(ReadDir(listing[n]), 1) + Weight(listing, n + 1)

RECURSIVE StackWeight(_)
StackWeight(n) ==
    IF n = 0 THEN 0 ELSE 1 + Weight(stack[n].entries, 1) + StackWeight(n - 1)

WorkLeft == IF pc = "walk" THEN StackWeight(Len(stack)) ELSE 0

RECURSIVE Collected(_)
Collected(n) == IF n = 0 THEN results ELSE Collected(n - 1) \o stack[n].results

NoTwoSamePath ==
    LET all == Collected(Len(stack))
    IN  \A m \in DOMAIN all : \A n \in DOMAIN all : all[m].path = all[n].path => m = n

TakenOnce ==
    (pc = "walk" /\ Top.entries # <<>> /\ Head(Top.entries).kind # "err") =>
        EntryPath(Head(Top.entries)) \notin examined

\* C9: every traversal step lowers the work left, keeps the record paths
\* distinct and takes an entry not taken before.
C9_TerminatesWithoutDuplicates ==
    [][/\ pc = "walk" => WorkLeft' < WorkLeft
       /\ NoTwoSamePath' /\ TakenOnce']_vars

\* The traversal has returned three records, one of them from two levels down.
C9_Witness ==
    /\ pc = "sort" /\ Len(results) = 3
    /\ \E n \in DOMAIN results : Len(results[n].path) = 4

(***************************************************************************)
(* C6.  The sort step gives a permutation of the records the traversal     *)
(* returned: by name, ascending in the file name alone, records of one     *)
(* file name in their order of discovery; by size, descending; by date,    *)
(* descending; without a key, the order of discovery itself.               *)
(***************************************************************************)
Count(v, x) == Cardinality({n \in DOMAIN v : v[n] = x})

IsPermutation(out, in) ==
    /\ Len(out) = Len(in)
    /\ \A n \in DOMAIN in : Count(out, in[n]) = Count(in, in[n])

IndexIn(v, x) == CHOOSE n \in DOMAIN v : v[n] = x

SortedAsClaimed(out, in, key) ==
    CASE key = "name" ->
            \A m \in DOMAIN out : \A n \in DOMAIN out : m < n =>
                LET c == CmpStr(FileName(out[m].path), FileName(out[n].path), 1)
                IN  /\ c # "Greater"
                    /\ c = "Equal" => IndexIn(in, out[m]) < IndexIn(in, out[n])
      [] key = "size" ->
            \A m \in DOMAIN out : \A n \in DOMAIN out : m < n =>
                CmpU64(out[m].size, out[n].size) # "Less"
      [] key = "date" ->
            \A m \in DOMAIN out : \A n \in DOMAIN out : m < n =>
                out[m].modified >= out[n].modified
      [] OTHER -> out = in

\* C6: the sort step permutes the results into the order of the chosen key
\* (name ascending and stable, size and date descending; else unchanged).
C6_SortOrders ==
    [][pc = "sort" => /\ IsPermutation(results', results)
                      /\ SortedAsClaimed(results', results, args.sort)]_vars

\* Sorted by name: ./a and ./c/a, of one file name, stand first, in their
\* order of discovery, which had ./c between or before them.
C6_Witness ==
    /\ pc = "display" /\ args.sort = "name" /\ output = <<>>
    /\ Len(results) = 4
    /\ FileName(results[1].path) = FileName(results[2].path)
    /\ results[1].path = <<<<".">>, <<"c">>, <<"a">>>>
    /\ results[4].path = <<<<".">>, <<"c">>>>

(***************************************************************************)
(* C10.  For every size the unit index is one of the six units, so that    *)
(* human_readable_size always returns.  The code does not keep this: from  *)
(* 1024^6 on (here 2^61) the index is 6 and UNITS[6] panics.               *)
(***************************************************************************)
C10_UnitIndexInTable == panic # "index"

=============================================================================
